---- MODULE Spec2Model ----
(***************************************************************************)
(* A model of src/model/model.py: the Encoder, the PolicyNet and           *)
(* optimize_model.                                                         *)
(*                                                                         *)
(* Tensors are abstracted: PolicyNet runs with batch_size = 1 and          *)
(* hidden_size = 1, so every tensor of the recurrent state is one number   *)
(* of Val (arithmetic modulo Modulus); the Encoder is modelled by the      *)
(* shapes of its tensors; optimize_model keeps exact rationals as          *)
(* integers in units of 1/Unit.  The library primitives (LSTMCell, Linear, *)
(* the distributions, autograd, the optimizer) are stand-ins that keep     *)
(* what the code relies on: which arguments each result depends on.        *)
(***************************************************************************)
EXTENDS Integers, Sequences, FiniteSets, TLC

VARIABLES
    \* PolicyNet
    num_layers,     \* self.num_layers
    num_actions,    \* self.num_actions
    act_lim,        \* self.act_lim
    theta,          \* the learnable weights of the cells and linear layers
    h_list,         \* self.h_list: None or a list of tensors
    c_list,         \* self.c_list: None or a list of tensors
    ret,            \* what the last forward call returned (NoRet if it raised)
    raised,         \* the exception the last forward call raised, or "none"
    last,           \* history: the last forward call (arguments, path, carries read)
    streak,         \* history: 2 if the last two forward calls had the same arguments,
                    \*          1 if not, 0 before the first call
    \* Encoder
    enc_cfg,        \* input_size, hidden_size, num_layers of the Encoder
    enc_in,         \* the last Encoder.forward call: input shape, whether h_0/c_0 given
    encoding_shape, \* shape of the tensor Encoder.forward returned
    \* optimize_model
    pc,             \* position inside optimize_model
    batch_log_prob, \* argument batch_log_prob: the length of each log-probability tensor
    batch_rewards,  \* argument batch_rewards
    GAMMA,          \* argument GAMMA, <<numerator, denominator>>
    tracked,        \* whether batch_log_prob carries a gradient graph
    batch_weight,   \* local batch_weight
    loss,           \* local loss: None, or whether it requires grad
    grad,           \* param.grad of every parameter of policy_net
    params,         \* the value of every parameter of policy_net
    params0,        \* history: params when the current call was entered
    phases,         \* history: the gradient phases the current call has run, each
                    \*          with param.grad as it left it
    opt_raised,     \* the exception the current call raised, or "none"
    opt_calls       \* history: number of optimize_model calls so far

policy_vars == <<num_layers, num_actions, act_lim, theta, h_list, c_list, ret,
                 raised, last, streak>>
enc_vars == <<enc_cfg, enc_in, encoding_shape>>
opt_vars == <<pc, batch_log_prob, batch_rewards, GAMMA, tracked, batch_weight, loss, grad, params,
              params0, phases, opt_raised, opt_calls>>
vars == <<policy_vars, enc_vars, opt_vars>>

-----------------------------------------------------------------------------
(* Bounds *)

Modulus == 3        \* tensor entries are numbers modulo Modulus
MaxLayers == 2      \* num_layers ranges over 1..MaxLayers
MaxActions == 3     \* num_actions ranges over 1..MaxActions
MaxDim == 3         \* Encoder: batch, seq_len, hidden_size range over 1..MaxDim
MaxLen == 3         \* optimize_model: episodes have 0..MaxLen rewards
MaxGrad == 2        \* backward produces gradient entries in -MaxGrad..MaxGrad
MaxOptCalls == 2    \* optimize_model is called at most this often

Val == 0..(Modulus - 1)
StateVals == {0, 1}         \* the state vectors fed to PolicyNet.forward
EncodingVals == {0, 1}      \* the encoding vectors fed to PolicyNet.forward
ThetaVals == {1, 2}         \* the weights PolicyNet is constructed with
ActLims == {1, 2}           \* the act_lim PolicyNet is constructed with
Eps == {-1, 1}              \* the standard-normal draws of Normal.sample()

None == [tag |-> "None"]
Some(x) == [tag |-> "Some", val |-> x]

RECURSIVE SumSeq(_)
SumSeq(s) == IF s = <<>> THEN 0 ELSE s[1] + SumSeq(Tail(s))

-----------------------------------------------------------------------------
(* PolicyNet *)

NoRet == [tag |-> "NoRet"]
NoCall == [called |-> FALSE, state |-> 0, encoding |-> None, ran |-> {},
           carries |-> <<>>, decision_log_prob |-> 0, final_action_log_prob |-> 0]

\* torch.nn.LSTMCell, cell_list[i]: (x, (h, c)) |-> (h', c').  A stand-in that,
\* like the cell, depends on the input, on both halves of the carry and on the
\* cell's own weights.
LSTMCell(i, x, hc) ==
    LET c_1 == (hc[2] + hc[1] + (theta + i + 1) * x) % Modulus
        h_1 == (c_1 + x + i) % Modulus
    IN  <<h_1, c_1>>

\* [torch.zeros((batch_size, hidden_size)) * self.num_layers]: the product is
\* taken of the tensor, not of the list, so the list has one element.
ResetList(n) == << (0 * n) % Modulus >>

\* if encoding is not None:
ResetCondOnce(encoding, hl) == encoding # None /\ hl = None
ResetCond(encoding, hl) == encoding # None

\* self.h_list = [...]; self.h_list[0] = encoding
ResetH(encoding) == [ResetList(num_layers) EXCEPT ![1] = encoding.val]
\* self.c_list = [...]
ResetC == ResetList(num_layers)

\* The lists the forward propagation reads: self.h_list and self.c_list as the
\* reset branch, when taken, leaves them.
ListsReadLazyInit(hl, cl, encoding) ==
    IF ResetCond(encoding, hl)
    THEN [h |-> Some(ResetH(encoding)), c |-> Some(ResetC)]
    ELSE IF hl = None
         THEN [h |-> Some(ResetList(num_layers)), c |-> Some(ResetList(num_layers))]
         ELSE [h |-> hl, c |-> cl]
ListsRead(hl, cl, encoding) ==
    IF ResetCond(encoding, hl)
    THEN [h |-> Some(ResetH(encoding)), c |-> Some(ResetC)]
    ELSE [h |-> hl, c |-> cl]

\* The recurrent carry layer i (0-based) is given: (self.h_list[0], self.c_list[0])
\* for the first layer and for every following layer.
CarryLast(hl, cl, i) ==
    IF i = 0 THEN <<hl[1], cl[1]>> ELSE <<hl[Len(hl)], cl[Len(cl)]>>
Carry(hl, cl, i) == <<hl[1], cl[1]>>

\* The forward propagation through the stacked cells: the list of (h_1, c_1) of
\* layers i .. num_layers-1, where x is the input of layer i.
RECURSIVE Layers(_, _, _, _)
Layers(i, x, hl, cl) ==
    IF i >= num_layers THEN <<>>
    ELSE LET hc == LSTMCell(i, x, Carry(hl, cl, i))
         IN  <<hc>> \o Layers(i + 1, hc[1], hl, cl)

\* The three linear layers on the last layer's hidden output.
FC_decision(h) == [j \in 1..num_actions |-> (theta * h + j) % Modulus]
FC_values_mean(h) == [j \in 1..num_actions |-> (theta + h + j) % Modulus]
FC_values_logstd(h) == [j \in 1..num_actions |-> (theta + 2 * h + j) % Modulus]

\* torch.exp: positive for every argument.
Exp(x) == 2 ^ x

\* OneHotCategorical.sample(): the indicator vector of the drawn dimension d.
OneHot(d) == [j \in 1..num_actions |-> IF j = d THEN 1 ELSE 0]

\* (a * b).sum(dim=1)
MaskedSum(a, b) == SumSeq([j \in 1..Len(a) |-> a[j] * b[j]])

\* OneHotCategorical.log_prob: the chosen logit less the normaliser.
CategoricalLogProb(logits, decision) ==
    MaskedSum(logits, decision) - SumSeq(logits) - 1

\* Normal(mean, std).sample() for the standard-normal draw e, and log_prob.
NormalSample(mean, std, e) == mean + std * e
NormalLogProb(mean, std, value) ==
    LET z == (value - mean) \div std IN 0 - (z * z) - std

\* The loop over the first num_actions - 1 dimensions: None when it never runs.
SampledValues(mean, std, eps) ==
    IF num_actions - 1 < 1 THEN None
    ELSE Some([i \in 1..(num_actions - 1) |-> NormalSample(mean[i], std[i], eps[i])])
SampledLogProbs(mean, std, values) ==
    IF num_actions - 1 < 1 THEN None
    ELSE Some([i \in 1..(num_actions - 1) |-> NormalLogProb(mean[i], std[i], values.val[i])])

\* torch.cat([x, torch.zeros((batch_size, 1))], dim=1): the last action.
AppendLastOnes(x) == Append(x, 1)
AppendLast(x) == Append(x, 0)

\* One call PolicyNet.forward(state, encoding) on the stored lists hl0, cl0, with
\* the draws d (decision) and eps (one per Normal) of the sample() calls: the
\* lists it leaves, what it returns or raises, and what it did on the way.
ForwardResult(hl0, cl0, state, encoding, d, eps) ==
    LET reset == ResetCond(encoding, hl0)
        read == ListsRead(hl0, cl0, encoding)
        resetRan == IF reset THEN {"reset"} ELSE {}
    IN  IF read.h = None
        THEN \* self.h_list[0] on None: TypeError, before anything is stored
             [h_list |-> read.h, c_list |-> read.c, ret |-> NoRet,
              raised |-> "TypeError", ran |-> resetRan, carries |-> <<>>,
              decision_log_prob |-> 0, final_action_log_prob |-> 0]
        ELSE
        LET out == Layers(0, state, read.h.val, read.c.val)
            h_1 == out[num_layers][1]
            decision_logit == FC_decision(h_1)
            values_mean == FC_values_mean(h_1)
            values_logstd == FC_values_logstd(h_1)
            values_std == [j \in 1..num_actions |-> Exp(values_logstd[j])]
            decision == OneHot(d)
            decision_log_prob == CategoricalLogProb(decision_logit, decision)
            sampled == SampledValues(values_mean, values_std, eps)
            sampled_lp == SampledLogProbs(values_mean, values_std, sampled)
            stored_h == Some([i \in 1..num_layers |-> out[i][1]])
            stored_c == Some([i \in 1..num_layers |-> out[i][2]])
            ran == resetRan \cup {"step"}
            carries == [i \in 1..num_layers |-> Carry(read.h.val, read.c.val, i - 1)]
        IN  IF sampled = None
            THEN \* torch.cat([None, zeros]): TypeError, after the lists are stored
                 [h_list |-> stored_h, c_list |-> stored_c, ret |-> NoRet,
                  raised |-> "TypeError", ran |-> ran, carries |-> carries,
                  decision_log_prob |-> 0, final_action_log_prob |-> 0]
            ELSE
            LET action_values == AppendLast(sampled.val)
                actions_log_prob == AppendLast(sampled_lp.val)
                final_action_values == MaskedSum(action_values, decision)
                final_action_log_prob == MaskedSum(actions_log_prob, decision)
            IN  [h_list |-> stored_h, c_list |-> stored_c,
                 ret |-> [tag |-> "Ret", decision |-> decision,
                          final_action_values |-> final_action_values * act_lim,
                          log_prob |-> decision_log_prob + final_action_log_prob],
                 raised |-> "none", ran |-> ran, carries |-> carries,
                 decision_log_prob |-> decision_log_prob,
                 final_action_log_prob |-> final_action_log_prob]

forward(state, encoding, d, eps) ==
    \E r \in {ForwardResult(h_list, c_list, state, encoding, d, eps)} :
        /\ h_list' = r.h_list
        /\ c_list' = r.c_list
        /\ ret' = r.ret
        /\ raised' = r.raised
        /\ last' = [called |-> TRUE, state |-> state, encoding |-> encoding,
                    ran |-> r.ran, carries |-> r.carries,
                    decision_log_prob |-> r.decision_log_prob,
                    final_action_log_prob |-> r.final_action_log_prob]
        /\ streak' = IF last.called /\ last.encoding = encoding /\ last.state = state
                     THEN 2 ELSE 1
        /\ UNCHANGED <<num_layers, num_actions, act_lim, theta>>

EncodingArgs == {None} \cup {Some(e) : e \in EncodingVals}

Forward ==
    /\ \E state \in StateVals, encoding \in EncodingArgs, d \in 1..num_actions :
         \E eps \in [1..(num_actions - 1) -> Eps] :
            forward(state, encoding, d, eps)
    /\ UNCHANGED <<enc_vars, opt_vars>>

\* PolicyNet.__init__
InitPolicy ==
    /\ num_layers \in 1..MaxLayers
    /\ num_actions \in 1..MaxActions
    /\ act_lim \in ActLims
    /\ theta \in ThetaVals
    /\ h_list = None
    /\ c_list = None
    /\ ret = NoRet
    /\ raised = "none"
    /\ last = NoCall
    /\ streak = 0

\* The PolicyNet when it is not under study.
IdlePolicy ==
    /\ num_layers = 1 /\ num_actions = 1 /\ act_lim = 1 /\ theta = 0
    /\ h_list = None /\ c_list = None /\ ret = NoRet /\ raised = "none"
    /\ last = NoCall /\ streak = 0

-----------------------------------------------------------------------------
(* Encoder: the shapes of its tensors *)

EncInputSizes == {1, 2}
EncLayers == {1, 2}

\* nn.LSTM(batch_first=True) on an input of shape (batch, seq_len, input_size):
\* the shape of h_n, (num_layers, batch, hidden_size).
LSTM_h_n(input) == <<enc_cfg.num_layers, input[1], enc_cfg.hidden_size>>

\* h_n[-1, :, :]: the first dimension is indexed away.
SelectLast(shape) == Tail(shape)

\* tensor.squeeze(dim), dim 0-based: the dimension is removed if its size is 1.
Squeeze(shape, dim) ==
    IF dim + 1 <= Len(shape) /\ shape[dim + 1] = 1
    THEN [j \in 1..(Len(shape) - 1) |-> IF j <= dim THEN shape[j] ELSE shape[j + 1]]
    ELSE shape

\* Encoder.forward(input, h_0, c_0): the shape of the encoding returned.  The
\* initial state is handed to the LSTM only if both halves are given; the
\* shape of h_n is the same either way.
EncoderForward(input, h_0, c_0) == Squeeze(SelectLast(LSTM_h_n(input)), 1)

EncoderCall ==
    /\ \E batch \in 1..MaxDim, seq_len \in 1..MaxDim, h_0 \in BOOLEAN, c_0 \in BOOLEAN :
         LET input == <<batch, seq_len, enc_cfg.input_size>>
         IN  /\ enc_in' = Some([shape |-> input, initial_state |-> h_0 /\ c_0])
             /\ encoding_shape' = Some(EncoderForward(input, h_0, c_0))
    /\ UNCHANGED <<enc_cfg, policy_vars, opt_vars>>

\* Encoder.__init__
InitEncoder ==
    /\ enc_cfg \in [input_size : EncInputSizes, hidden_size : 1..MaxDim,
                    num_layers : EncLayers]
    /\ enc_in = None
    /\ encoding_shape = None

IdleEnc ==
    /\ enc_cfg = [input_size |-> 1, hidden_size |-> 1, num_layers |-> 1]
    /\ enc_in = None
    /\ encoding_shape = None

-----------------------------------------------------------------------------
(* optimize_model *)

\* The parameter tensors of policy_net, one number each.
Params == {"cell_list", "FC_decision"}

\* Rewards and weights are exact rationals, kept as integers in units of 1/Unit.
Unit == 4 ^ MaxLen
RewardVals == {0 - Unit, Unit}
Gammas == {<<1, 2>>, <<3, 4>>}
Episodes == UNION {[1..n -> RewardVals] : n \in 0..MaxLen}
Batches == UNION {[1..b -> Episodes] : b \in {0, 1, 2}}
FewBatches == {<<>>, << <<Unit>> >>, << <<Unit, 0 - Unit>>, <<Unit>> >>}

\* The lengths of the tensors of the batch_log_prob that goes with batch_rewards
\* b: one log-probability per reward.
Lengths(b) == [e \in 1..Len(b) |-> Len(b[e])]
\* The calls the rollout driver is meant to make, and calls with any short list
\* of short log-probability tensors.
Matched(batches) == {[log_prob |-> Lengths(b), rewards |-> b] : b \in batches}
LogProbShapes == UNION {[1..b -> {0, 1, 2}] : b \in {0, 1, 2}}
AnyCalls(batches) == [log_prob : LogProbShapes, rewards : batches]
Gradients == [Params -> (0 - MaxGrad)..MaxGrad]
OneGradient == {[p \in Params |-> MaxGrad]}

\* GAMMA * x
MulGammaNoDiscount(g, x) == x
MulGamma(g, x) == (g[1] * x) \div g[2]

\* for i in reversed(range(n)): rtg[i] = rewards[i] + (GAMMA * rtg[i+1] if i + 1 < n else 0)
\* (i is 1-based here).
RECURSIVE RtgLoop(_, _, _, _)
RtgLoop(rewards, g, i, rtg) ==
    IF i < 1 THEN rtg
    ELSE RtgLoop(rewards, g, i - 1,
                 [rtg EXCEPT ![i] = rewards[i] + (IF i + 1 <= Len(rewards)
                                                  THEN MulGamma(g, rtg[i + 1])
                                                  ELSE 0)])

\* rtg = torch.zeros(n), then the loop.
RewardToGo(rewards, g) ==
    RtgLoop(rewards, g, Len(rewards), [i \in 1..Len(rewards) |-> 0])

\* Whether loss carries a gradient graph: the weights never do, so it does
\* exactly when the log-probabilities do.
LossRequiresGradAlways(tr) == TRUE
LossRequiresGrad(tr) == tr

\* clamp_(-1, 1) of one entry.
ClampNothing(g) == g
Clamp(g) == IF g < 0 - 1 THEN 0 - 1 ELSE IF g > 1 THEN 1 ELSE g

PhaseNames == [i \in 1..Len(phases) |-> phases[i].name]
Ran(name, g) == Append(phases, [name |-> name, grad |-> g])

\* optimize_model(policy_net, batch_log_prob, batch_rewards, optimizer, GAMMA) is
\* entered.
OptCall(calls, trackings) ==
    /\ pc \in {"idle", "done", "raised"}
    /\ opt_calls < MaxOptCalls
    /\ \E c \in calls, g \in Gammas, tr \in trackings :
         /\ batch_log_prob' = c.log_prob
         /\ batch_rewards' = c.rewards
         /\ GAMMA' = g
         /\ tracked' = tr
    /\ batch_weight' = <<>>
    /\ loss' = None
    /\ params0' = params
    /\ phases' = <<>>
    /\ opt_raised' = "none"
    /\ opt_calls' = opt_calls + 1
    /\ pc' = "weights"
    /\ UNCHANGED <<grad, params, policy_vars, enc_vars>>

\* The loop that fills batch_weight.
ComputeWeights ==
    /\ pc = "weights"
    /\ batch_weight' = [e \in 1..Len(batch_rewards) |-> RewardToGo(batch_rewards[e], GAMMA)]
    /\ pc' = "loss"
    /\ UNCHANGED <<batch_log_prob, batch_rewards, GAMMA, tracked, loss, grad, params, params0, phases,
                   opt_raised, opt_calls, policy_vars, enc_vars>>

\* a * b of two one-dimensional tensors of lengths m and n: the shapes must
\* broadcast.
Broadcasts(m, n) == m = n \/ m = 1 \/ n = 1

\* The iterations i (1-based) of `for i in range(batch_size)` that raise:
\* batch_weight[i] out of range (IndexError), or a product whose shapes do not
\* broadcast (RuntimeError).
LossLoopFailures ==
    {i \in 1..Len(batch_log_prob) :
        \/ i > Len(batch_weight)
        \/ ~Broadcasts(batch_log_prob[i], Len(batch_weight[i]))}

\* batch_size = len(batch_log_prob); the loop that sums the loss over
\* range(batch_size), and loss / batch_size: the loop stops at its first
\* failing iteration; on an empty batch_log_prob loss is still None and the
\* division raises TypeError.
ComputeLoss ==
    /\ pc = "loss"
    /\ IF LossLoopFailures # {}
       THEN LET i == CHOOSE i \in LossLoopFailures : \A j \in LossLoopFailures : i <= j
            IN  /\ loss' = IF i = 1 THEN None
                           ELSE Some([requires_grad |-> LossRequiresGrad(tracked)])
                /\ opt_raised' = IF i > Len(batch_weight) THEN "IndexError"
                                 ELSE "RuntimeError"
                /\ pc' = "raised"
       ELSE IF Len(batch_log_prob) = 0
       THEN /\ loss' = None
            /\ opt_raised' = "TypeError"
            /\ pc' = "raised"
       ELSE /\ loss' = Some([requires_grad |-> LossRequiresGrad(tracked)])
            /\ opt_raised' = "none"
            /\ pc' = "zero_grad"
    /\ UNCHANGED <<batch_log_prob, batch_rewards, GAMMA, tracked, batch_weight, grad,
                   params, params0, phases, opt_calls, policy_vars, enc_vars>>

\* optimizer.zero_grad(): every gradient is set to None or, where the optimizer
\* zeroes in place, an existing gradient to 0.
ZeroGrad ==
    /\ pc = "zero_grad"
    /\ \E set_to_none \in BOOLEAN :
         /\ grad' = [p \in Params |-> IF set_to_none \/ grad[p] = None
                                      THEN None ELSE Some(0)]
         /\ phases' = Ran("zero_grad", grad')
    /\ pc' = "backward"
    /\ UNCHANGED <<batch_log_prob, batch_rewards, GAMMA, tracked, batch_weight, loss, params, params0,
                   opt_raised, opt_calls, policy_vars, enc_vars>>

\* The factor that multiplies entry j of batch_log_prob[i] in the sum
\* torch.sum(batch_log_prob[i] * batch_weight[i]), up to the sign and the
\* division by batch_size: the weight it is paired with, which under
\* broadcasting is every weight for a log-probability tensor of length 1 and
\* the one weight for a weight tensor of length 1; with no weight the product
\* is empty.
Coefficient(i, j) ==
    LET m == batch_log_prob[i]
        w == batch_weight[i]
    IN  IF Len(w) = 0 THEN 0
        ELSE IF m = Len(w) THEN w[j]
        ELSE IF m = 1 THEN SumSeq(w)
        ELSE w[1]

\* The loss does not depend on any log-probability: every product is empty or
\* every factor is 0.
LossIsConstant ==
    \A i \in 1..Len(batch_log_prob) :
        \A j \in 1..batch_log_prob[i] : Coefficient(i, j) = 0

\* The gradients of the loss loss.backward() can produce: 0 for a loss that
\* depends on no log-probability, and otherwise what the graph of the
\* log-probabilities gives.
LossGradients(gradients) ==
    IF LossIsConstant THEN {[p \in Params |-> 0]} ELSE gradients

\* loss.backward(): raises RuntimeError on a loss without a gradient graph;
\* otherwise adds the gradient of the loss to every param.grad.
Backward(gradients) ==
    /\ pc = "backward"
    /\ IF ~loss.val.requires_grad
       THEN /\ opt_raised' = "RuntimeError"
            /\ pc' = "raised"
            /\ UNCHANGED <<grad, phases>>
       ELSE /\ \E g \in LossGradients(gradients) :
                 /\ grad' = [p \in Params |-> IF grad[p] = None THEN Some(g[p])
                                              ELSE Some(grad[p].val + g[p])]
                 /\ phases' = Ran("backward", grad')
            /\ pc' = "clamp"
            /\ UNCHANGED opt_raised
    /\ UNCHANGED <<batch_log_prob, batch_rewards, GAMMA, tracked, batch_weight, loss, params, params0,
                   opt_calls, policy_vars, enc_vars>>

\* for param in policy_net.parameters(): param.grad.data.clamp_(-1, 1)
ClampGradients ==
    /\ pc = "clamp"
    /\ grad' = [p \in Params |-> Some(Clamp(grad[p].val))]
    /\ phases' = Ran("clamp", grad')
    /\ pc' = "step"
    /\ UNCHANGED <<batch_log_prob, batch_rewards, GAMMA, tracked, batch_weight, loss, params, params0,
                   opt_raised, opt_calls, policy_vars, enc_vars>>

\* optimizer.step(): one descent update with the gradients as they stand (the
\* learning rate is taken as 1).
OptimizerStep ==
    /\ pc = "step"
    /\ params' = [p \in Params |-> params[p] - grad[p].val]
    /\ phases' = Ran("step", grad)
    /\ pc' = "done"
    /\ UNCHANGED <<batch_log_prob, batch_rewards, GAMMA, tracked, batch_weight, loss, grad, params0,
                   opt_raised, opt_calls, policy_vars, enc_vars>>

\* The parameters of a freshly constructed policy_net: no gradient yet.
InitOpt ==
    /\ pc = "idle" /\ batch_log_prob = <<>> /\ batch_rewards = <<>> /\ GAMMA = <<1, 2>> /\ tracked = TRUE
    /\ batch_weight = <<>> /\ loss = None
    /\ grad = [p \in Params |-> None]
    /\ params = [p \in Params |-> 0]
    /\ params0 = [p \in Params |-> 0]
    /\ phases = <<>> /\ opt_raised = "none" /\ opt_calls = 0

IdleOpt == InitOpt

Init == InitPolicy /\ IdleEnc /\ IdleOpt
Next == Forward
Spec == Init /\ [][Next]_vars

\* The Encoder alone.
InitEnc == IdlePolicy /\ InitEncoder /\ IdleOpt
NextEnc == EncoderCall
SpecEncoder == InitEnc /\ [][NextEnc]_vars

\* optimize_model alone, over every gradient and a few batches, with any short
\* batch_log_prob.
InitOptimize == IdlePolicy /\ IdleEnc /\ InitOpt
NextOpt ==
    \/ OptCall(AnyCalls(FewBatches), BOOLEAN)
    \/ ComputeWeights
    \/ ComputeLoss
    \/ ZeroGrad
    \/ Backward(Gradients)
    \/ ClampGradients
    \/ OptimizerStep
SpecOpt == InitOptimize /\ [][NextOpt]_vars

\* optimize_model alone, over every batch with its matching batch_log_prob (and
\* the few batches with any), and one gradient for the losses that depend on a
\* log-probability.
NextWeights ==
    \/ OptCall(Matched(Batches) \cup AnyCalls(FewBatches), {TRUE})
    \/ ComputeWeights
    \/ ComputeLoss
    \/ ZeroGrad
    \/ Backward(OneGradient)
    \/ ClampGradients
    \/ OptimizerStep
SpecWeights == InitOptimize /\ [][NextWeights]_vars

\* The PolicyNet with two action dimensions, for the claim about the carries.
InitCarry == Init /\ num_actions = 2 /\ act_lim = 1
SpecCarry == InitCarry /\ [][Next]_vars

-----------------------------------------------------------------------------
(* Claims about PolicyNet *)

\* C1, as stated: every successful forward call does exactly one of reset and
\* step: a call with an encoding only resets, a call without only steps.
C1_ExactlyOneOfResetStep ==
    (last.called /\ raised = "none") =>
        IF last.encoding # None THEN last.ran = {"reset"} ELSE last.ran = {"step"}

\* C1, amended: a forward call resets exactly when it is given an encoding, and
\* a call with an encoding then also runs the recurrent step, on the lists the
\* reset has just built; a call without an encoding never resets, and runs the
\* step alone unless it raises.
C1_ResetThenStep ==
    last.called =>
        /\ last.encoding # None =>
              /\ last.ran = {"reset", "step"}
              /\ last.carries[1] = <<last.encoding.val, 0>>
              /\ Len(h_list.val) = num_layers /\ Len(c_list.val) = num_layers
        /\ last.encoding = None =>
              /\ "reset" \notin last.ran
              /\ raised = "none" => last.ran = {"step"}

\* A second forward call with an encoding, on lists an earlier call left.
C1_Witness ==
    /\ last.called /\ last.encoding # None /\ raised = "none"
    /\ last.ran = {"reset", "step"} /\ streak = 2

\* C2: a forward call with the encoding and state of the reset call just before
\* it leaves h_list and c_list as that call left them.
C2_ResetIdempotent ==
    [][(/\ last.called /\ last.encoding # None
        /\ last'.encoding = last.encoding /\ last'.state = last.state)
       => (h_list' = h_list /\ c_list' = c_list)]_vars

\* Two reset calls in succession with the same encoding and state.
C2_Witness ==
    /\ last.called /\ last.encoding # None /\ streak = 2
    /\ h_list # None /\ num_layers > 1

\* C3: a returned decision is one-hot over num_actions dimensions, and when it
\* selects the last dimension the action value and its log-probability are 0,
\* so the total log-probability is the decision's alone.
C3_OneHotAndNoOp ==
    ret # NoRet =>
        /\ Len(ret.decision) = num_actions
        /\ \A j \in 1..num_actions : ret.decision[j] \in {0, 1}
        /\ Cardinality({j \in 1..num_actions : ret.decision[j] = 1}) = 1
        /\ ret.decision[num_actions] = 1 =>
              /\ ret.final_action_values = 0
              /\ last.final_action_log_prob = 0
              /\ ret.log_prob = last.decision_log_prob

\* A call over three dimensions whose decision is the no-op dimension.
C3_Witness ==
    /\ ret # NoRet /\ num_actions >= 3 /\ act_lim > 1
    /\ ret.decision[num_actions] = 1 /\ ret.log_prob # 0

\* C8: a forward call without an encoding on the null lists raises TypeError,
\* stores nothing and returns nothing, so the lists stay null.
C8_StepBeforeReset ==
    [][(h_list = None /\ last'.called /\ last'.encoding = None)
       => (/\ raised' = "TypeError"
           /\ h_list' = None /\ c_list' = None
           /\ ret' = NoRet /\ last'.ran = {})]_vars

\* Two step calls in succession, both before any reset, the second failing too.
C8_Witness ==
    /\ h_list = None /\ c_list = None /\ raised = "TypeError"
    /\ last.called /\ last.encoding = None /\ streak = 2

\* C9, as stated, here for the calls that return: in a call with an encoding e
\* the first layer reads the carry (e, 0) and every following layer reads the
\* carry (0, 0).
C9_OnlyLayer0Seeded ==
    (last.called /\ last.encoding # None /\ raised = "none") =>
        /\ last.carries[1] = <<last.encoding.val, 0>>
        /\ \A i \in 2..Len(last.carries) : last.carries[i] = <<0, 0>>

\* The lists that agree with l on entry 0 and hold anything in the entries after.
Variants(l) == {v \in [1..Len(l) -> Val] : v[1] = l[1]}

\* C10: every layer of a call reads the same carry, the one the first layer
\* reads, and the entries after the first of the stored lists are not read: a
\* call on lists that differ from the stored ones only there returns and raises
\* the same, and leaves the same first entries.
C10_LaterEntriesNeverRead ==
    /\ \A i \in 1..Len(last.carries) : last.carries[i] = last.carries[1]
    /\ h_list # None =>
        \A hv \in Variants(h_list.val), cv \in Variants(c_list.val) :
          \A state \in StateVals, encoding \in EncodingArgs, d \in 1..num_actions :
            \A eps \in [1..(num_actions - 1) -> Eps] :
              \A r1 \in {ForwardResult(h_list, c_list, state, encoding, d, eps)},
                 r2 \in {ForwardResult(Some(hv), Some(cv), state, encoding, d, eps)} :
                    /\ r1.ret = r2.ret /\ r1.raised = r2.raised
                    /\ r1.h_list.val[1] = r2.h_list.val[1]
                    /\ r1.c_list.val[1] = r2.c_list.val[1]

\* A step call on lists a step call stored, whose second entry differs from
\* the first.
C10_Witness ==
    /\ last.called /\ last.encoding = None /\ last.ran = {"step"} /\ streak = 2
    /\ num_layers >= 2 /\ raised = "none"
    /\ h_list.val[2] # h_list.val[1] /\ c_list.val[2] # c_list.val[1]

-----------------------------------------------------------------------------
(* Claims about optimize_model *)

Pow(b, n) == b ^ n

\* sum over j >= t of GAMMA^(j-t) * rewards[j]
DiscountedSum(rewards, g, t) ==
    SumSeq([k \in 1..(Len(rewards) - t + 1) |->
                (Pow(g[1], k - 1) * rewards[t + k - 1]) \div Pow(g[2], k - 1)])

\* C4: once batch_weight is filled, every episode's weights are the reward-to-go
\* of that episode's own rewards, over its own length: the last weight is the
\* last reward, each earlier one is its reward plus GAMMA times the next weight,
\* which is the discounted sum of the rewards from there on; rewards [1,1,1]
\* with GAMMA = 1/2 give [1.75, 1.5, 1.0].
C4_RewardToGo ==
    pc \notin {"idle", "weights"} =>
        /\ Len(batch_weight) = Len(batch_rewards)
        /\ \A e \in 1..Len(batch_rewards) :
             LET rewards == batch_rewards[e]
                 rtg == batch_weight[e]
                 n == Len(rewards)
             IN  /\ Len(rtg) = n
                 /\ n > 0 => rtg[n] = rewards[n]
                 /\ \A i \in 1..(n - 1) :
                      GAMMA[2] * (rtg[i] - rewards[i]) = GAMMA[1] * rtg[i + 1]
                 /\ \A i \in 1..n : rtg[i] = DiscountedSum(rewards, GAMMA, i)
                 /\ (rewards = <<Unit, Unit, Unit>> /\ GAMMA = <<1, 2>>) =>
                      rtg = <<(7 * Unit) \div 4, (3 * Unit) \div 2, Unit>>

\* A finished call on a batch of two episodes of different lengths, the first
\* with rewards [1,1,1] and GAMMA = 1/2.
C4_Witness ==
    /\ pc = "done" /\ GAMMA = <<1, 2>> /\ Len(batch_rewards) = 2
    /\ batch_rewards[1] = <<Unit, Unit, Unit>>
    /\ batch_rewards[2] = <<0 - Unit, Unit>>
    /\ batch_weight[1] = <<(7 * Unit) \div 4, (3 * Unit) \div 2, Unit>>
    /\ batch_weight[2] = <<(0 - Unit) \div 2, Unit>>

Abs(x) == IF x < 0 THEN 0 - x ELSE x
GradientPhases == <<"zero_grad", "backward", "clamp", "step">>

\* C6: the gradient phases of a call run in the order zero_grad, backward,
\* clamp, step, each at most once, and all four in a call that returns; when
\* optimizer.step() is about to run, and when it has run, every gradient entry
\* it uses lies in [-1, 1], and the update it makes is by those entries.
C6_ClipBeforeStep ==
    /\ Len(phases) <= Len(GradientPhases)
    /\ \A i \in 1..Len(phases) : phases[i].name = GradientPhases[i]
    /\ pc = "step" => \A p \in Params : grad[p] # None /\ Abs(grad[p].val) <= 1
    /\ pc = "done" =>
         /\ PhaseNames = GradientPhases
         /\ \A p \in Params :
              /\ phases[4].grad[p] # None
              /\ Abs(phases[4].grad[p].val) <= 1
              /\ phases[4].grad[p].val = Clamp(phases[2].grad[p].val)
              /\ params[p] = params0[p] - phases[4].grad[p].val

\* A second call that returned, in which backward left an entry beyond 1 on a
\* parameter and an entry within on the other.
C6_Witness ==
    /\ pc = "done" /\ opt_calls = 2
    /\ phases[2].grad["cell_list"].val > 1 /\ phases[4].grad["cell_list"].val = 1
    /\ phases[2].grad["FC_decision"].val = 0 - 1
    /\ params0 # [p \in Params |-> 0]

\* The call is one the rollout driver is meant to make: a log-probability
\* tensor for every episode, as long as the episode's rewards, and at least one.
WellFormedCall ==
    batch_log_prob # <<>> /\ batch_log_prob = Lengths(batch_rewards)

\* C7, as stated, here for the well-formed calls: a call on a batch whose
\* log-probabilities carry no gradient graph returns without raising and leaves
\* every parameter as it was.
C7_SilentNoOp ==
    (~tracked /\ WellFormedCall) =>
        /\ opt_raised = "none"
        /\ pc = "done" => params = params0

\* The call is one whose loss lines 182-189 compute: batch_log_prob is not
\* empty and no longer than batch_rewards, and the length of each of its tensors
\* is that of the episode's rewards, or one of the two lengths is 1.
LossComputes ==
    /\ batch_log_prob # <<>>
    /\ Len(batch_log_prob) <= Len(batch_rewards)
    /\ \A i \in 1..Len(batch_log_prob) :
         \/ batch_log_prob[i] = Len(batch_rewards[i])
         \/ batch_log_prob[i] = 1
         \/ Len(batch_rewards[i]) = 1

\* C7, amended: a call on a batch whose log-probabilities carry no gradient
\* graph does not return: it raises before any gradient is clamped and any
\* update applied, and every parameter stays as it was.  On a well-formed call,
\* and on every other call whose loss is computed, it is loss.backward(), after
\* zero_grad, that raises RuntimeError; on the remaining calls the loss
\* computation raises, before any gradient phase (TypeError on an empty
\* batch_log_prob).
C7_RaisesWithoutUpdate ==
    /\ WellFormedCall => LossComputes
    /\ ~tracked =>
        /\ pc \notin {"clamp", "step", "done"}
        /\ params = params0
        /\ pc = "raised" =>
              IF LossComputes
              THEN opt_raised = "RuntimeError" /\ PhaseNames = <<"zero_grad">>
              ELSE /\ opt_raised \in {"RuntimeError", "TypeError", "IndexError"}
                   /\ phases = <<>>
                   /\ loss = None \/ Len(batch_log_prob) > 1
                   /\ batch_log_prob = <<>> => opt_raised = "TypeError"
        /\ pc # "raised" => opt_raised = "none"
        /\ pc \in {"zero_grad", "backward"} => LossComputes

\* A second, well-formed call, on log-probabilities without a gradient graph,
\* that raised in backward, after a first call that moved the parameters.
C7_Witness ==
    /\ ~tracked /\ WellFormedCall /\ pc = "raised"
    /\ opt_raised = "RuntimeError" /\ PhaseNames = <<"zero_grad">> /\ opt_calls = 2
    /\ params # [p \in Params |-> 0]

-----------------------------------------------------------------------------
(* Claims about the Encoder *)

\* C5, as stated: the encoding Encoder.forward returns for an input of shape
\* (batch, seq_len, input_size) has shape (batch, hidden_size).
C5_EncodingShape ==
    encoding_shape # None =>
        encoding_shape.val = <<enc_in.val.shape[1], enc_cfg.hidden_size>>

====
